---- MODULE Spec2Model ----
(***************************************************************************)
(* opcua::client::Session (src/opcuapp/client/session.h): session          *)
(* establishment (CreateSession / ActivateSession), the Publish loop and   *)
(* its acknowledgement ledger.                                             *)
(*                                                                         *)
(* Every member function is cut at its lock sections: one step per         *)
(* std::lock_guard scope, one step per call into the transport.  A thread  *)
(* record holds the position and the locals of the call it is running.    *)
(* The transport (the OpcUa_ClientApi_Begin calls) and the Channel are    *)
(* the environment: an accepted request stays in `inflight` until a       *)
(* thread runs its completion handler.                                     *)
(***************************************************************************)
EXTENDS Bags, FiniteSets, Integers, Sequences, TLC

\* ---- bounds ----
NThreads == 2      \* threads that call into the Session (application and transport workers)
MaxOps == 4        \* events from outside: Create, Delete, Start/StopPublishing, channel events, Publish responses

Threads == 1..NThreads
SubIds == {1, 2}

\* ---- status codes (src/status_code.h) ----
BadCodes == {"Bad", "BadTimeout", "BadSequenceNumberUnknown"}
Codes == {"Good", "Uncertain"} \cup BadCodes
\* codes the transport reports for a refused submission or a failed service
TransportBad == {"BadTimeout"}
\* codes the server puts in the per-acknowledgement results of a Publish response
AckResultCodes == {"Good", "BadSequenceNumberUnknown"}

IsBad(code) == code \in BadCodes
\* StatusCode::operator bool
IsNotBad(code) == ~IsBad(code)

VARIABLES
    chanStatus,             \* channel_.status_code()
    created,                \* created_
    creation_requested,     \* creation_requested_
    status_code,            \* status_code_
    info,                   \* info_
    subscriptions,          \* subscriptions_ : SubscriptionId -> handler
    acknowledgements,       \* acknowledgements_
    sent_acknowledgements,  \* sent_acknowledgements_
    publishing,             \* publishing_
    inflight,               \* bag of requests the transport accepted and has not completed
    th,                     \* per thread: position and locals of the running call
    aborted,                \* assert() failed in a build with assertions
    h                       \* history of what was observed from outside

sess == <<created, creation_requested, status_code, info>>
pub == <<subscriptions, acknowledgements, sent_acknowledgements, publishing>>
vars == <<chanStatus, created, creation_requested, status_code, info,
          subscriptions, acknowledgements, sent_acknowledgements, publishing,
          inflight, th, aborted, h>>

\* threads are interchangeable: a new call runs on the first free one
FreeThread(t) == th[t].pc = "idle" /\ \A u \in Threads : u < t => th[u].pc # "idle"

NoHandler == 0
Idle == [pc |-> "idle", op |-> "none", n |-> 0, code |-> "Good", sub |-> 0, seq |-> 0,
         acks |-> <<>>, handler |-> NoHandler]

\* threads carry no identity: the running calls are kept on the lowest threads
Compact(f) ==
    LET busy == SelectSeq(f, LAMBDA rec : rec.pc # "idle")
    IN  [t \in Threads |-> IF t <= Len(busy) THEN busy[t] ELSE Idle]

ZeroCount == [c \in Codes |-> 0]

Init ==
    /\ chanStatus \in {"Good", "Bad"}
    /\ created = FALSE
    /\ creation_requested = FALSE
    /\ status_code = "Bad"
    /\ info = [session_id |-> 0, server_nonce |-> 0]
    /\ subscriptions = [s \in {} |-> NoHandler]
    /\ acknowledgements = <<>>
    /\ sent_acknowledgements = <<>>
    /\ publishing = FALSE
    /\ inflight = EmptyBag
    /\ th = [t \in Threads |-> Idle]
    /\ aborted = FALSE
    /\ h = [ops |-> 0,
            emitted |-> ZeroCount,       \* status_changed(code) emissions
            outcomes |-> ZeroCount,      \* bad outcomes of session-scoped requests
            faulted |-> FALSE,           \* SetStatus ran with a bad code
            deleted |-> FALSE,           \* Delete() ran
            deleteCalls |-> 0,           \* Delete() calls
            createCalls |-> 0,           \* Create() calls
            deferred |-> 0,              \* Create() calls made while the channel was not connected
            chanGood |-> 0,              \* channel status_changed events with a good status
            reactivations |-> 0,         \* those that found the session created
            createSubmitted |-> 0,       \* OpcUa_ClientApi_BeginCreateSession calls
            createGood |-> 0,            \* good CreateSession responses
            activateSubmitted |-> 0,     \* OpcUa_ClientApi_BeginActivateSession calls
            activateGood |-> 0,          \* good ActivateSession responses
            startCalls |-> 0,            \* StartPublishing calls
            startDone |-> 0,             \* StartPublishing calls that returned
            pubIssued |-> 0,             \* OpcUa_ClientApi_BeginPublish calls
            issuedBy |-> {},             \* the StartPublishing calls (by call number) that made one
            pubResp |-> 0,               \* Publish responses delivered
            dataSeq |-> 0,               \* last sequence number the server used
            ackSent |-> EmptyBag,        \* acknowledgements carried by outbound Publish requests
            received |-> {},             \* (sub, seq) of good data-bearing responses
            dispatched |-> {},           \* those whose sub was registered when processed
            delivered |-> EmptyBag,      \* handler invocations <<handler, sub, seq>>
            calls |-> [k \in {"Browse", "Read"} |-> 0],  \* Browse() / Read() calls
            finished |-> EmptyBag,       \* how each ended: <<kind, code, "refused" | "response">>
            callbacks |-> EmptyBag,      \* callback invocations <<kind, code, number of results>>
            unlocked |-> {},             \* members read or written with mutex_ not held
            lockedCalls |-> {}]          \* outside calls made with mutex_ held

\* ---- helpers ----
Bump(f, c) == [f EXCEPT ![c] = @ + 1]

CreateSessionRequest == [kind |-> "CreateSession", acks |-> <<>>]
ActivateSessionRequest == [kind |-> "ActivateSession", acks |-> <<>>]
PublishRequest(acks) == [kind |-> "Publish", acks |-> acks]

\* What an OpcUa_ClientApi_Begin call can return: a channel that is not
\* connected refuses every submission, a connected one may still refuse.
SubmitResults(chan) ==
    IF IsNotBad(chan) THEN {"Good"} \cup TransportBad ELSE TransportBad

\* members are read or written at a point where no lock_guard is in scope
Unguarded(hh, fields) == [hh EXCEPT !.unlocked = @ \cup fields]

\* a call out of the session (a transport submission or a user callback);
\* `held` tells whether a lock_guard on mutex_ is in scope at the call
OutsideCall(hh, call, held) ==
    IF held THEN [hh EXCEPT !.lockedCalls = @ \cup {call}] ELSE hh

\* the transport keeps the request iff the Begin call returned a good status
Accepted(r, req) == IF IsNotBad(r) THEN inflight (+) SetToBag({req}) ELSE inflight

\* `if (!status_code) OnError(status_code);` after a Begin call
AfterSubmit(rec, r) ==
    IF IsNotBad(r) THEN rec ELSE [rec EXCEPT !.pc = "OnError", !.code = r]

\* a bad outcome of a session-scoped request was received
Outcome(hh, r) == IF IsBad(r) THEN [hh EXCEPT !.outcomes = Bump(@, r)] ELSE hh

\* the running call returns to its caller
Return(rec) ==
    IF rec.op = "OnPublishResponse" /\ rec.handler # NoHandler /\ rec.pc # "Handler"
    THEN [rec EXCEPT !.pc = "Handler"]
    ELSE Idle

Returned(hh, rec) ==
    IF Return(rec) = Idle /\ rec.op = "StartPublishing"
    THEN [hh EXCEPT !.startDone = @ + 1]
    ELSE hh

\* ---- session establishment ----

\* Session::CommitCreate: submit CreateSession
CommitCreate(t, chan, hh) ==
    \E r \in SubmitResults(chan) :
        /\ inflight' = Accepted(r, CreateSessionRequest)
        /\ th' = Compact([th EXCEPT ![t] = AfterSubmit(Idle, r)])
        /\ h' = Outcome(OutsideCall([hh EXCEPT !.createSubmitted = @ + 1],
                                    "BeginCreateSession", FALSE), r)

\* Session::Activate: submit ActivateSession
Activate(t, chan, hh) ==
    \E r \in SubmitResults(chan) :
        /\ inflight' = Accepted(r, ActivateSessionRequest)
        /\ th' = Compact([th EXCEPT ![t] = AfterSubmit(Idle, r)])
        /\ h' = Outcome(OutsideCall([hh EXCEPT !.activateSubmitted = @ + 1],
                                    "BeginActivateSession", FALSE), r)

\* what the outside sees of a Create() call
CreateCalled(hh) ==
    Unguarded([hh EXCEPT !.ops = @ + 1, !.createCalls = @ + 1,
                         !.deferred = IF IsNotBad(chanStatus) THEN @ ELSE @ + 1],
              {"creation_requested"})

\* Create() without the `if (channel_.status_code())` test
CreateAlwaysCommits(t) ==
    /\ ~aborted /\ FreeThread(t) /\ h.ops < MaxOps
    /\ creation_requested' = TRUE
    /\ CommitCreate(t, chanStatus, CreateCalled(h))
    /\ UNCHANGED <<chanStatus, created, status_code, info, pub, aborted>>

\* Session::Create
Create(t) ==
    /\ ~aborted /\ FreeThread(t) /\ h.ops < MaxOps
    /\ creation_requested' = TRUE
    /\ IF IsNotBad(chanStatus)
       THEN CommitCreate(t, chanStatus, CreateCalled(h))
       ELSE inflight' = inflight /\ th' = th /\ h' = CreateCalled(h)
    /\ UNCHANGED <<chanStatus, created, status_code, info, pub, aborted>>

\* what the outside sees of a channel status_changed event
ChannelEvent(hh, code) ==
    Unguarded([hh EXCEPT !.ops = @ + 1,
                         !.chanGood = IF IsNotBad(code) THEN @ + 1 ELSE @,
                         !.reactivations = IF IsNotBad(code) /\ created THEN @ + 1 ELSE @],
              IF ~IsNotBad(code) THEN {}
              ELSE IF ~created THEN {"created", "creation_requested"} ELSE {"created"})

\* the channel handler submitting CreateSession again for a created session
ChannelStatusChangedRecreates(t, code) ==
    /\ ~aborted /\ FreeThread(t) /\ h.ops < MaxOps
    /\ chanStatus' = code
    /\ LET hh == ChannelEvent(h, code) IN
       IF ~IsNotBad(code)
       THEN inflight' = inflight /\ th' = th /\ h' = hh
       ELSE IF creation_requested
       THEN CommitCreate(t, code, hh)
       ELSE inflight' = inflight /\ th' = th /\ h' = hh
    /\ UNCHANGED <<sess, pub, aborted>>

\* the channel handler activating a session that was requested but not created
ChannelStatusChangedActivatesEarly(t, code) ==
    /\ ~aborted /\ FreeThread(t) /\ h.ops < MaxOps
    /\ chanStatus' = code
    /\ LET hh == ChannelEvent(h, code) IN
       IF ~IsNotBad(code)
       THEN inflight' = inflight /\ th' = th /\ h' = hh
       ELSE IF creation_requested
       THEN Activate(t, code, hh)
       ELSE inflight' = inflight /\ th' = th /\ h' = hh
    /\ UNCHANGED <<sess, pub, aborted>>

\* channel_.status_changed fires with `code`; the lambda connected in
\* Session::Session runs on the thread that raised the event
ChannelStatusChanged(t, code) ==
    /\ ~aborted /\ FreeThread(t) /\ h.ops < MaxOps
    /\ chanStatus' = code
    /\ LET hh == ChannelEvent(h, code) IN
       IF ~IsNotBad(code)
       THEN inflight' = inflight /\ th' = th /\ h' = hh
       ELSE IF ~created /\ creation_requested
       THEN CommitCreate(t, code, hh)
       ELSE IF created
       THEN Activate(t, code, hh)
       ELSE inflight' = inflight /\ th' = th /\ h' = hh
    /\ UNCHANGED <<sess, pub, aborted>>

\* completion handler of CreateSession (the lambda in CommitCreate)
OnCreateSessionResponse(t, code) ==
    /\ ~aborted /\ FreeThread(t)
    /\ BagIn(CreateSessionRequest, inflight)
    /\ inflight' = inflight (-) SetToBag({CreateSessionRequest})
    /\ IF ~IsNotBad(code)
       THEN /\ th' = Compact([th EXCEPT ![t] = [Idle EXCEPT !.pc = "OnError", !.code = code]])
            /\ h' = Outcome(h, code)
            /\ UNCHANGED <<created, info>>
       ELSE /\ created' = TRUE
            /\ info' = [session_id |-> h.createGood + 1,
                        server_nonce |-> h.createGood + h.activateGood + 1]
            /\ th' = Compact([th EXCEPT ![t] = [Idle EXCEPT !.pc = "Activate"]])
            /\ h' = [h EXCEPT !.createGood = @ + 1]
    /\ UNCHANGED <<chanStatus, creation_requested, status_code, pub, aborted>>

\* the Activate() call that ends the CreateSession handler
ActivateAfterCreate(t) ==
    /\ ~aborted /\ th[t].pc = "Activate"
    /\ Activate(t, chanStatus, h)
    /\ UNCHANGED <<chanStatus, sess, pub, aborted>>

\* SetStatus that stores the code and does not raise status_changed
SetStatusSilent(t, code) ==
    /\ status_code' = code
    /\ h' = Returned([h EXCEPT !.faulted = TRUE], th[t])
    /\ th' = Compact([th EXCEPT ![t] = Return(th[t])])

\* SetStatus that raises status_changed inside the lock section
SetStatusEmitsLocked(t, code) ==
    /\ status_code' = code
    /\ h' = Returned(OutsideCall([h EXCEPT !.emitted = Bump(@, code), !.faulted = TRUE],
                                 "status_changed", TRUE), th[t])
    /\ th' = Compact([th EXCEPT ![t] = Return(th[t])])

\* Session::SetStatus
SetStatus(t, code) ==
    /\ status_code' = code
    /\ h' = Returned(OutsideCall([h EXCEPT !.emitted = Bump(@, code), !.faulted = TRUE],
                                 "status_changed", FALSE), th[t])
    /\ th' = Compact([th EXCEPT ![t] = Return(th[t])])

\* Session::OnError
OnError(t) ==
    /\ ~aborted /\ th[t].pc = "OnError"
    /\ SetStatus(t, th[t].code)
    /\ UNCHANGED <<chanStatus, created, creation_requested, info, pub, inflight, aborted>>

\* OnActivated that raises status_changed(Good) without storing the status
OnActivatedNoStore(t, hh) ==
    /\ status_code' = status_code
    /\ info' = [info EXCEPT !.server_nonce = hh.createGood + hh.activateGood]
    /\ h' = [hh EXCEPT !.emitted = Bump(@, "Good")]
    /\ th' = th

\* Session::OnActivated
OnActivated(t, hh) ==
    /\ status_code' = "Good"
    /\ info' = [info EXCEPT !.server_nonce = hh.createGood + hh.activateGood]
    /\ h' = OutsideCall([hh EXCEPT !.emitted = Bump(@, "Good")], "status_changed", FALSE)
    /\ th' = th

\* completion handler of ActivateSession (the lambda in Activate)
OnActivateSessionResponse(t, code) ==
    /\ ~aborted /\ FreeThread(t)
    /\ BagIn(ActivateSessionRequest, inflight)
    /\ inflight' = inflight (-) SetToBag({ActivateSessionRequest})
    /\ IF ~IsNotBad(code)
       THEN /\ th' = Compact([th EXCEPT ![t] = [Idle EXCEPT !.pc = "OnError", !.code = code]])
            /\ h' = Outcome(h, code)
            /\ UNCHANGED <<status_code, info>>
       ELSE OnActivated(t, [h EXCEPT !.activateGood = @ + 1])
    /\ UNCHANGED <<chanStatus, created, creation_requested, pub, aborted>>

\* ---- Publish loop ----

\* the handler a Subscription registers for its id
HandlerOf(sub) == 10 + sub

\* std::map::emplace: an existing key keeps its handler
Emplace(m, k, v) ==
    IF k \in DOMAIN m THEN m ELSE [x \in DOMAIN m \cup {k} |-> IF x = k THEN v ELSE m[x]]

\* std::map::erase
Erase(m, k) == [x \in DOMAIN m \ {k} |-> m[x]]

\* the loop over `results` in OnPublishResponse: the first bad result, or Good
RECURSIVE FirstBad(_)
FirstBad(results) ==
    IF results = <<>> THEN "Good"
    ELSE IF ~IsNotBad(Head(results)) THEN Head(results)
    ELSE FirstBad(Tail(results))

\* subscription ids are interchangeable: the first StartPublishing uses id 1
StartableSubs == IF h.startCalls = 0 THEN {1} ELSE SubIds

\* Session::StartPublishing, first lock section
StartPublishing(t, sub) ==
    /\ ~aborted /\ FreeThread(t) /\ h.ops < MaxOps /\ sub \in StartableSubs
    /\ subscriptions' = Emplace(subscriptions, sub, HandlerOf(sub))
    /\ th' = Compact([th EXCEPT ![t] =
                IF ~publishing
                THEN [Idle EXCEPT !.pc = "Publish", !.op = "StartPublishing",
                                  !.n = h.startCalls + 1]
                ELSE Idle])
    /\ h' = [h EXCEPT !.ops = @ + 1, !.startCalls = @ + 1,
                      !.startDone = IF publishing THEN @ + 1 ELSE @]
    /\ UNCHANGED <<chanStatus, sess, acknowledgements, sent_acknowledgements,
                   publishing, inflight, aborted>>

\* Session::StopPublishing
StopPublishing(t, sub) ==
    /\ ~aborted /\ FreeThread(t) /\ h.ops < MaxOps
    /\ subscriptions' = Erase(subscriptions, sub)
    /\ h' = [h EXCEPT !.ops = @ + 1]
    /\ UNCHANGED <<chanStatus, sess, acknowledgements, sent_acknowledgements,
                   publishing, inflight, th, aborted>>

\* Delete() that also forgets that the session was created
DeleteForgetsSession(t) ==
    /\ ~aborted /\ FreeThread(t) /\ h.ops < MaxOps
    /\ subscriptions' = [s \in {} |-> NoHandler]
    /\ acknowledgements' = <<>>
    /\ sent_acknowledgements' = <<>>
    /\ publishing' = FALSE
    /\ created' = FALSE /\ creation_requested' = FALSE
    /\ h' = [h EXCEPT !.ops = @ + 1, !.deleted = TRUE, !.deleteCalls = @ + 1]
    /\ UNCHANGED <<chanStatus, status_code, info, inflight, th, aborted>>

\* Session::Delete
Delete(t) ==
    /\ ~aborted /\ FreeThread(t) /\ h.ops < MaxOps
    /\ subscriptions' = [s \in {} |-> NoHandler]
    /\ acknowledgements' = <<>>
    /\ sent_acknowledgements' = <<>>
    /\ publishing' = FALSE
    /\ h' = [h EXCEPT !.ops = @ + 1, !.deleted = TRUE, !.deleteCalls = @ + 1]
    /\ UNCHANGED <<chanStatus, sess, inflight, th, aborted>>

\* Publish() that copies acknowledgements_ instead of moving it out
PublishKeepsAcks(t) ==
    /\ ~aborted /\ th[t].pc = "Publish"
    /\ IF publishing
       THEN /\ th' = Compact([th EXCEPT ![t] = Return(th[t])])
            /\ h' = Returned(h, th[t])
            /\ UNCHANGED <<acknowledgements, sent_acknowledgements, publishing>>
       ELSE /\ publishing' = TRUE
            /\ th' = Compact([th EXCEPT ![t] = [@ EXCEPT !.pc = "BeginPublish",
                                                  !.acks = acknowledgements]])
            /\ acknowledgements' = acknowledgements
            /\ sent_acknowledgements' = acknowledgements
            /\ h' = h
    /\ UNCHANGED <<chanStatus, sess, subscriptions, inflight, aborted>>

\* Publish() without the `if (publishing_) return;` gate
PublishNoGate(t) ==
    /\ ~aborted /\ th[t].pc = "Publish"
    /\ publishing' = TRUE
    /\ th' = Compact([th EXCEPT ![t] = [@ EXCEPT !.pc = "BeginPublish",
                                          !.acks = acknowledgements]])
    /\ acknowledgements' = <<>>
    /\ sent_acknowledgements' = acknowledgements
    /\ h' = h
    /\ UNCHANGED <<chanStatus, sess, subscriptions, inflight, aborted>>

\* Session::Publish, the lock section: the single-flight gate
Publish(t) ==
    /\ ~aborted /\ th[t].pc = "Publish"
    /\ IF publishing
       THEN /\ th' = Compact([th EXCEPT ![t] = Return(th[t])])
            /\ h' = Returned(h, th[t])
            /\ UNCHANGED <<acknowledgements, sent_acknowledgements, publishing>>
       ELSE /\ publishing' = TRUE
            /\ th' = Compact([th EXCEPT ![t] = [@ EXCEPT !.pc = "BeginPublish",
                                                  !.acks = acknowledgements]])
            /\ acknowledgements' = <<>>
            /\ sent_acknowledgements' = acknowledgements
            /\ h' = h
    /\ UNCHANGED <<chanStatus, sess, subscriptions, inflight, aborted>>

\* Session::Publish, after the lock section: OpcUa_ClientApi_BeginPublish
BeginPublish(t) ==
    /\ ~aborted /\ th[t].pc = "BeginPublish"
    /\ \E r \in SubmitResults(chanStatus) :
        LET rec == AfterSubmit(Return(th[t]), r)
            hh == OutsideCall(
                    [h EXCEPT !.pubIssued = @ + 1,
                              !.issuedBy = IF th[t].op = "StartPublishing"
                                           THEN @ \cup {th[t].n} ELSE @,
                              !.ackSent = @ (+) [p \in {th[t].acks[i] : i \in 1..Len(th[t].acks)} |-> 1]],
                    "BeginPublish", FALSE)
        IN  /\ inflight' = Accepted(r, PublishRequest(th[t].acks))
            /\ th' = Compact([th EXCEPT ![t] =
                        IF IsNotBad(r) THEN rec
                        ELSE [th[t] EXCEPT !.pc = "OnError", !.code = r, !.acks = <<>>]])
            /\ h' = IF IsNotBad(r) THEN Returned(hh, th[t]) ELSE Outcome(hh, r)
    /\ UNCHANGED <<chanStatus, sess, pub, aborted>>

\* the Publish responses the server can give to request `req`
PublishResponses(req) ==
    [code : TransportBad, sub : {0}, data : {FALSE}, results : {<<>>}]
    \cup [code : {"Good", "Uncertain"}, sub : SubIds, data : BOOLEAN,
          results : [1..Len(req.acks) -> AckResultCodes]]

\* the bad code a Publish response carries: its service result, else a bad
\* per-acknowledgement result, else none ("Good")
ResponseFault(resp) ==
    IF IsBad(resp.code) THEN resp.code
    ELSE IF \E i \in DOMAIN resp.results : IsBad(resp.results[i])
    THEN resp.results[CHOOSE i \in DOMAIN resp.results : IsBad(resp.results[i])]
    ELSE "Good"

\* OnPublishResponse without the loop over the acknowledgement results
OnPublishResponseIgnoresResults(t, req, resp) ==
    /\ ~aborted /\ FreeThread(t) /\ h.ops < MaxOps
    /\ req.kind = "Publish" /\ BagIn(req, inflight)
    /\ inflight' = inflight (-) SetToBag({req})
    /\ LET hh == Outcome([h EXCEPT !.ops = @ + 1, !.pubResp = @ + 1], ResponseFault(resp))
           seq == h.dataSeq + 1
           found == resp.sub \in DOMAIN subscriptions
           hd == [hh EXCEPT !.dataSeq = seq,
                            !.received = @ \cup {<<resp.sub, seq>>},
                            !.dispatched = IF found THEN @ \cup {<<resp.sub, seq>>} ELSE @]
       IN
       IF ~IsNotBad(resp.code)
       THEN /\ th' = Compact([th EXCEPT ![t] = [Idle EXCEPT !.pc = "OnError", !.code = resp.code]])
            /\ h' = hh
            /\ UNCHANGED <<pub, aborted>>
       ELSE IF resp.data
       THEN \/ \* assert(publishing_) fails in a build with assertions
               /\ ~publishing
               /\ aborted' = TRUE
               /\ h' = hd
               /\ UNCHANGED <<pub, th>>
            \/ \* the assertion holds, or is compiled out (NDEBUG)
               /\ publishing' = FALSE
               /\ sent_acknowledgements' = <<>>
               /\ acknowledgements' = Append(acknowledgements, <<resp.sub, seq>>)
               /\ th' = Compact([th EXCEPT ![t] =
                           [Idle EXCEPT !.pc = "Publish", !.op = "OnPublishResponse",
                                        !.sub = resp.sub, !.seq = seq,
                                        !.handler = IF found THEN subscriptions[resp.sub]
                                                    ELSE NoHandler]])
               /\ h' = hd
               /\ UNCHANGED <<subscriptions, aborted>>
       ELSE /\ th' = Compact([th EXCEPT ![t] = [Idle EXCEPT !.pc = "Publish",
                                                    !.op = "OnPublishResponse"]])
            /\ h' = hh
            /\ UNCHANGED <<pub, aborted>>
    /\ UNCHANGED <<chanStatus, sess>>

\* OnPublishResponse that acknowledges only the subscriptions it knows
OnPublishResponseSkipsUnknown(t, req, resp) ==
    /\ ~aborted /\ FreeThread(t) /\ h.ops < MaxOps
    /\ req.kind = "Publish" /\ BagIn(req, inflight)
    /\ inflight' = inflight (-) SetToBag({req})
    /\ LET hh == Outcome([h EXCEPT !.ops = @ + 1, !.pubResp = @ + 1], ResponseFault(resp))
           seq == h.dataSeq + 1
           found == resp.sub \in DOMAIN subscriptions
           hd == [hh EXCEPT !.dataSeq = seq,
                            !.received = @ \cup {<<resp.sub, seq>>},
                            !.dispatched = IF found THEN @ \cup {<<resp.sub, seq>>} ELSE @]
       IN
       IF ~IsNotBad(resp.code)
       THEN /\ th' = Compact([th EXCEPT ![t] = [Idle EXCEPT !.pc = "OnError", !.code = resp.code]])
            /\ h' = hh
            /\ UNCHANGED <<pub, aborted>>
       ELSE IF ~IsNotBad(FirstBad(resp.results))
       THEN /\ th' = Compact([th EXCEPT ![t] = [Idle EXCEPT !.pc = "OnError",
                                                    !.code = FirstBad(resp.results)]])
            /\ h' = hh
            /\ UNCHANGED <<pub, aborted>>
       ELSE IF resp.data
       THEN \/ \* assert(publishing_) fails in a build with assertions
               /\ ~publishing
               /\ aborted' = TRUE
               /\ h' = hd
               /\ UNCHANGED <<pub, th>>
            \/ \* the assertion holds, or is compiled out (NDEBUG)
               /\ publishing' = FALSE
               /\ sent_acknowledgements' = <<>>
               /\ acknowledgements' = IF found THEN Append(acknowledgements, <<resp.sub, seq>>)
                                     ELSE acknowledgements
               /\ th' = Compact([th EXCEPT ![t] =
                           [Idle EXCEPT !.pc = "Publish", !.op = "OnPublishResponse",
                                        !.sub = resp.sub, !.seq = seq,
                                        !.handler = IF found THEN subscriptions[resp.sub]
                                                    ELSE NoHandler]])
               /\ h' = hd
               /\ UNCHANGED <<subscriptions, aborted>>
       ELSE /\ th' = Compact([th EXCEPT ![t] = [Idle EXCEPT !.pc = "Publish",
                                                    !.op = "OnPublishResponse"]])
            /\ h' = hh
            /\ UNCHANGED <<pub, aborted>>
    /\ UNCHANGED <<chanStatus, sess>>

\* Session::OnPublishResponse up to the Publish() call
OnPublishResponse(t, req, resp) ==
    /\ ~aborted /\ FreeThread(t) /\ h.ops < MaxOps
    /\ req.kind = "Publish" /\ BagIn(req, inflight)
    /\ inflight' = inflight (-) SetToBag({req})
    /\ LET hh == Outcome([h EXCEPT !.ops = @ + 1, !.pubResp = @ + 1], ResponseFault(resp))
           seq == h.dataSeq + 1
           found == resp.sub \in DOMAIN subscriptions
           hd == [hh EXCEPT !.dataSeq = seq,
                            !.received = @ \cup {<<resp.sub, seq>>},
                            !.dispatched = IF found THEN @ \cup {<<resp.sub, seq>>} ELSE @]
       IN
       IF ~IsNotBad(resp.code)
       THEN /\ th' = Compact([th EXCEPT ![t] = [Idle EXCEPT !.pc = "OnError", !.code = resp.code]])
            /\ h' = hh
            /\ UNCHANGED <<pub, aborted>>
       ELSE IF ~IsNotBad(FirstBad(resp.results))
       THEN /\ th' = Compact([th EXCEPT ![t] = [Idle EXCEPT !.pc = "OnError",
                                                    !.code = FirstBad(resp.results)]])
            /\ h' = hh
            /\ UNCHANGED <<pub, aborted>>
       ELSE IF resp.data
       THEN \/ \* assert(publishing_) fails in a build with assertions
               /\ ~publishing
               /\ aborted' = TRUE
               /\ h' = hd
               /\ UNCHANGED <<pub, th>>
            \/ \* the assertion holds, or is compiled out (NDEBUG)
               /\ publishing' = FALSE
               /\ sent_acknowledgements' = <<>>
               /\ acknowledgements' = Append(acknowledgements, <<resp.sub, seq>>)
               /\ th' = Compact([th EXCEPT ![t] =
                           [Idle EXCEPT !.pc = "Publish", !.op = "OnPublishResponse",
                                        !.sub = resp.sub, !.seq = seq,
                                        !.handler = IF found THEN subscriptions[resp.sub]
                                                    ELSE NoHandler]])
               /\ h' = hd
               /\ UNCHANGED <<subscriptions, aborted>>
       ELSE /\ th' = Compact([th EXCEPT ![t] = [Idle EXCEPT !.pc = "Publish",
                                                    !.op = "OnPublishResponse"]])
            /\ h' = hh
            /\ UNCHANGED <<pub, aborted>>
    /\ UNCHANGED <<chanStatus, sess>>

\* the end of Session::OnPublishResponse: `if (handler) handler(...)`
InvokeHandler(t) ==
    /\ ~aborted /\ th[t].pc = "Handler"
    /\ h' = OutsideCall(
                [h EXCEPT !.delivered = @ (+) SetToBag({<<th[t].handler, th[t].sub, th[t].seq>>})],
                "handler", FALSE)
    /\ th' = Compact([th EXCEPT ![t] = Idle])
    /\ UNCHANGED <<chanStatus, sess, pub, inflight, aborted>>

\* ---- Browse and Read ----

BrowseRequest == [kind |-> "Browse", acks |-> <<>>]
ReadRequest == [kind |-> "Read", acks |-> <<>>]

\* results a response carries: one per requested item, none with a bad service result
NoOfResults(code) == IF IsNotBad(code) THEN 1 ELSE 0

\* a Browse or Read call was made and the Begin call returned r
RequestCalled(hh, kind, r) ==
    OutsideCall([hh EXCEPT !.ops = @ + 1, !.calls = Bump(@, kind),
                           !.finished = IF IsNotBad(r) THEN @
                                        ELSE @ (+) SetToBag({<<kind, r, "refused">>})],
                "Begin" \o kind, FALSE)

\* the transport completed a Browse or Read with service result `code`
RequestCompleted(hh, kind, code) ==
    [hh EXCEPT !.ops = @ + 1, !.finished = @ (+) SetToBag({<<kind, code, "response">>})]

\* the BrowseCallback / ReadCallback is invoked
Callback(hh, kind, code, n) ==
    OutsideCall([hh EXCEPT !.callbacks = @ (+) SetToBag({<<kind, code, n>>})],
                "callback", FALSE)

\* Session::Browse
Browse(t) ==
    /\ ~aborted /\ FreeThread(t) /\ h.ops < MaxOps
    /\ \E r \in SubmitResults(chanStatus) :
        /\ inflight' = Accepted(r, BrowseRequest)
        /\ h' = IF IsNotBad(r) THEN RequestCalled(h, "Browse", r)
                ELSE Callback(RequestCalled(h, "Browse", r), "Browse", r, 0)
    /\ UNCHANGED <<chanStatus, sess, pub, th, aborted>>

\* completion handler of Browse (the lambda in Session::Browse)
OnBrowseResponse(t, code) ==
    /\ ~aborted /\ FreeThread(t) /\ h.ops < MaxOps
    /\ BagIn(BrowseRequest, inflight)
    /\ inflight' = inflight (-) SetToBag({BrowseRequest})
    /\ h' = Callback(RequestCompleted(h, "Browse", code), "Browse", code, NoOfResults(code))
    /\ UNCHANGED <<chanStatus, sess, pub, th, aborted>>

\* Read() that drops the refused submission without telling the callback
ReadNoSyncCallback(t) ==
    /\ ~aborted /\ FreeThread(t) /\ h.ops < MaxOps
    /\ \E r \in SubmitResults(chanStatus) :
        /\ inflight' = Accepted(r, ReadRequest)
        /\ h' = RequestCalled(h, "Read", r)
    /\ UNCHANGED <<chanStatus, sess, pub, th, aborted>>

\* Session::Read
Read(t) ==
    /\ ~aborted /\ FreeThread(t) /\ h.ops < MaxOps
    /\ \E r \in SubmitResults(chanStatus) :
        /\ inflight' = Accepted(r, ReadRequest)
        /\ h' = IF IsNotBad(r) THEN RequestCalled(h, "Read", r)
                ELSE Callback(RequestCalled(h, "Read", r), "Read", r, 0)
    /\ UNCHANGED <<chanStatus, sess, pub, th, aborted>>

\* a Read handler that treats a bad service result like Publish does
OnReadResponseFaults(t, code) ==
    /\ ~aborted /\ FreeThread(t) /\ h.ops < MaxOps
    /\ BagIn(ReadRequest, inflight)
    /\ inflight' = inflight (-) SetToBag({ReadRequest})
    /\ status_code' = IF IsNotBad(code) THEN status_code ELSE code
    /\ h' = LET hh == Callback(RequestCompleted(h, "Read", code), "Read", code, NoOfResults(code))
            IN  IF IsNotBad(code) THEN hh ELSE [hh EXCEPT !.emitted = Bump(@, code)]
    /\ UNCHANGED <<chanStatus, created, creation_requested, info, pub, th, aborted>>

\* completion handler of Read (the lambda in Session::Read)
OnReadResponse(t, code) ==
    /\ ~aborted /\ FreeThread(t) /\ h.ops < MaxOps
    /\ BagIn(ReadRequest, inflight)
    /\ inflight' = inflight (-) SetToBag({ReadRequest})
    /\ h' = Callback(RequestCompleted(h, "Read", code), "Read", code, NoOfResults(code))
    /\ UNCHANGED <<chanStatus, sess, pub, th, aborted>>

PublishRequests == {req \in BagToSet(inflight) : req.kind = "Publish"}

\* the transport completes a Publish request on thread t
PublishCompletes(t) ==
    \E req \in PublishRequests : \E resp \in PublishResponses(req) :
        OnPublishResponse(t, req, resp)

CompletionCodes == {"Good", "Uncertain"} \cup TransportBad
\* service results a Browse or Read response carries
RequestCodes == {"Good"} \cup TransportBad

Next ==
    \/ \E t \in Threads : Create(t)
    \/ \E t \in Threads : \E code \in {"Good", "Bad"} : ChannelStatusChanged(t, code)
    \/ \E t \in Threads : \E code \in CompletionCodes : OnCreateSessionResponse(t, code)
    \/ \E t \in Threads : ActivateAfterCreate(t)
    \/ \E t \in Threads : \E code \in CompletionCodes : OnActivateSessionResponse(t, code)
    \/ \E t \in Threads : OnError(t)
    \/ \E t \in Threads : \E sub \in SubIds : StartPublishing(t, sub)
    \/ \E t \in Threads : \E sub \in SubIds : StopPublishing(t, sub)
    \/ \E t \in Threads : Delete(t)
    \/ \E t \in Threads : Publish(t)
    \/ \E t \in Threads : BeginPublish(t)
    \/ \E t \in Threads : PublishCompletes(t)
    \/ \E t \in Threads : InvokeHandler(t)
    \/ \E t \in Threads : Browse(t)
    \/ \E t \in Threads : \E code \in RequestCodes : OnBrowseResponse(t, code)
    \/ \E t \in Threads : Read(t)
    \/ \E t \in Threads : \E code \in RequestCodes : OnReadResponse(t, code)

Spec == Init /\ [][Next]_vars

\* ---- observations used by the properties ----

\* requests of one kind the transport holds
InFlight(kind) ==
    LET S == {req \in BagToSet(inflight) : req.kind = kind}
    IN  BagCardinality([req \in S |-> inflight[req]])

AllIdle == \A t \in Threads : th[t].pc = "idle"

\* no bad outcome of a session-scoped request was received so far
NoFault == \A c \in Codes : h.outcomes[c] = 0

\* occurrences of x in sequence q
Occurrences(q, x) == Cardinality({i \in DOMAIN q : q[i] = x})

\* where an acknowledgement can be: pending, taken by a Publish() that has
\* not reached the transport yet, or carried by an outbound Publish request
AckCopies(p) ==
    Occurrences(acknowledgements, p)
    + Cardinality({t \in Threads : th[t].pc = "BeginPublish" /\ Occurrences(th[t].acks, p) > 0})
    + CopiesIn(p, h.ackSent)

\* ---- properties ----

\* C1: at most one Publish request of the Session is in flight, in every
\* reachable state, whatever the interleaving of create, delete,
\* start_publishing, stop_publishing, channel events and completions.
C1_SinglePublishInFlight == InFlight("Publish") <= 1

\* C2: publishing is true iff a Publish request is in flight; stated for the
\* states in which no call is in the middle of Publish(), i.e. after a
\* response of any kind, after a refused submission and after delete().
C2_PublishingIffInFlight ==
    (AllIdle /\ ~aborted) => (publishing <=> InFlight("Publish") >= 1)

\* C3: while a subscription is registered and the session has not faulted,
\* once a good Publish response (data or keepalive) has been handled a
\* Publish request is outstanding again.
C3_LoopNeverStalls ==
    (AllIdle /\ ~aborted /\ NoFault /\ DOMAIN subscriptions # {} /\ h.pubResp >= 1)
        => InFlight("Publish") >= 1

\* C4 as stated: unless the session faults, every (sub, seq) pair received in
\* a good data-bearing Publish response is acknowledged exactly once, under
\* every interleaving with start_publishing, stop_publishing and delete.
C4_AckedExactlyOnce ==
    (NoFault /\ ~aborted) => \A p \in h.received : AckCopies(p) = 1

\* C4 amended: unless the session faults or delete() runs, every received
\* (sub, seq) pair is pending, or taken by the one Publish() being submitted,
\* or carried by one outbound Publish request, never two of these and never
\* none; and a Publish() that passed the gate has taken every pending pair.
C4_AckedExactlyOnceUnlessDeleted ==
    (NoFault /\ ~h.deleted) =>
        /\ \A p \in h.received : AckCopies(p) = 1
        /\ ((\E t \in Threads : th[t].pc = "BeginPublish") => acknowledgements = <<>>)

\* a received pair went out in the next Publish request, which is in flight
C4_Witness ==
    /\ NoFault /\ ~h.deleted
    /\ \E p \in h.received : CopiesIn(p, h.ackSent) = 1
    /\ \E req \in PublishRequests : req.acks # <<>>

\* handler calls still owed by a running OnPublishResponse
OwedCalls(p) ==
    Cardinality({t \in Threads : /\ th[t].op = "OnPublishResponse"
                                 /\ th[t].handler = HandlerOf(p[1])
                                 /\ th[t].sub = p[1] /\ th[t].seq = p[2]})

\* C5: for each good data-bearing Publish response whose sub_id is registered
\* when it is processed, the handler of that sub_id is invoked exactly once
\* with its data, and no other handler is invoked for it.
C5_HandlerInvokedOnce ==
    /\ \A p \in h.dispatched :
          CopiesIn(<<HandlerOf(p[1]), p[1], p[2]>>, h.delivered) + OwedCalls(p) = 1
    /\ \A e \in BagToSet(h.delivered) :
          e[1] = HandlerOf(e[2]) /\ <<e[2], e[3]>> \in h.dispatched

\* C6 as stated: before the first Publish response, the first
\* start_publishing call issues the Publish and no further call issues one.
C6_FirstCallIssues ==
    (h.pubResp = 0 /\ ~h.deleted) =>
        /\ h.issuedBy \subseteq {1}
        /\ ((h.startDone = h.startCalls /\ h.startCalls >= 1) => h.issuedBy = {1})

\* C6 amended: before the first Publish response, the start_publishing calls
\* issue exactly one Publish between them: the call that passes the gate of
\* Publish() first issues it (the first call when calls are sequential), and
\* every other call issues none.
C6_OnePublishIssued ==
    (h.pubResp = 0 /\ ~h.deleted) =>
        /\ h.pubIssued <= 1
        /\ Cardinality(h.issuedBy) = h.pubIssued
        /\ ((h.startDone = h.startCalls /\ h.startCalls >= 1) => h.pubIssued = 1)
        /\ ((h.startCalls = 1 /\ h.startDone = 1) => h.issuedBy = {1})

\* two start_publishing calls returned before any response, one Publish issued
C6_Witness ==
    /\ h.pubResp = 0 /\ ~h.deleted
    /\ h.startCalls >= 2 /\ h.startDone = h.startCalls
    /\ h.pubIssued = 1 /\ InFlight("Publish") = 1

\* create(), CreateSession good, ActivateSession good and nothing else
HappyPath ==
    /\ h.ops = 1 /\ h.createCalls = 1 /\ NoFault
    /\ h.createSubmitted = 1 /\ h.createGood = 1
    /\ h.activateSubmitted = 1 /\ h.activateGood = 1

\* C7 as stated: status_changed(Good) is emitted only when a CreateSession
\* and ActivateSession pair has just completed successfully, so there are
\* never more Good emissions than good CreateSession responses; and the
\* status is bad before the first good ActivateSession response.
C7_GoodOnlyAfterCreateActivatePair ==
    /\ h.emitted["Good"] <= h.createGood
    /\ (h.activateGood = 0 => IsBad(status_code))

\* C7 amended: status_changed(Good) is emitted, and the status becomes Good,
\* iff an ActivateSession has just completed successfully, whether it followed
\* a CreateSession or re-activated an already created session after the
\* channel came up again; an ActivateSession is only ever submitted for a
\* created session; in the happy path Good is emitted exactly once and the
\* status is Good afterwards; the status is bad in every state before the
\* first good ActivateSession response.
C7_GoodIffActivated ==
    /\ [](/\ h.emitted["Good"] = h.activateGood
          /\ (h.activateSubmitted >= 1 => h.createGood >= 1)
          /\ (h.activateGood = 0 => IsBad(status_code))
          /\ (HappyPath => (h.emitted["Good"] = 1 /\ status_code = "Good")))
    /\ [][(h'.activateGood # h.activateGood =>
                (status_code' = "Good" /\ h'.emitted["Good"] = h.emitted["Good"] + 1))
           /\ ((status_code' = "Good" /\ status_code # "Good") =>
                h'.activateGood = h.activateGood + 1)]_vars

\* Good was emitted a second time by a re-activation, without a CreateSession
C7_Witness ==
    /\ AllIdle /\ NoFault /\ inflight = EmptyBag
    /\ h.createGood = 1 /\ h.activateSubmitted = 2 /\ h.activateGood = 2
    /\ h.emitted["Good"] = 2 /\ status_code = "Good"

\* OnError calls that have not reached SetStatus yet
OwedErrors(c) == Cardinality({t \in Threads : th[t].pc = "OnError" /\ th[t].code = c})

\* C8: every bad outcome of a session-scoped request (bad service result, bad
\* per-acknowledgement result, refused submission) sets the status to the
\* received bad code and emits status_changed with that code exactly once;
\* status_changed with a bad code is emitted at no other time.
C8_FaultEmitsOnce ==
    /\ [](\A c \in BadCodes : h.emitted[c] + OwedErrors(c) = h.outcomes[c])
    /\ [][\A c \in BadCodes : h'.emitted[c] # h.emitted[c] =>
              (/\ h'.emitted[c] = h.emitted[c] + 1
               /\ status_code' = c
               /\ OwedErrors(c)' = OwedErrors(c) - 1)]_vars

\* two faults of different kinds were each reported once
C8_Witness ==
    /\ h.outcomes["BadSequenceNumberUnknown"] = 1
    /\ h.emitted["BadSequenceNumberUnknown"] = 1
    /\ h.outcomes["BadTimeout"] = 1 /\ h.emitted["BadTimeout"] = 1
    /\ status_code = "BadSequenceNumberUnknown"

\* C9: once the session has faulted its status never becomes Good again.
C9_FaultedIsTerminal == h.faulted => IsBad(status_code)

\* C10: create() is idempotent: a create() call that follows an earlier one
\* submits no request and leaves the session as it was.
C10_CreateIdempotent ==
    [][(h'.createCalls = h.createCalls + 1 /\ h.createCalls >= 1) =>
          (h'.createSubmitted = h.createSubmitted /\ inflight' = inflight /\ sess' = sess)]_vars

\* C11: create() sets creation_requested; on a connected channel it submits
\* CreateSession at once, on a channel that is not connected it submits
\* nothing and the CreateSession is submitted by the next channel event with
\* a good status; without a create() such an event submits nothing.
C11_CreateDefersUntilConnected ==
    /\ [](h.createCalls = 0 => (~creation_requested /\ h.createSubmitted = 0))
    /\ [][/\ (h'.createCalls = h.createCalls + 1 =>
               (/\ creation_requested'
                /\ h'.createSubmitted =
                      h.createSubmitted + (IF IsNotBad(chanStatus) THEN 1 ELSE 0)
                /\ (IsBad(chanStatus) => inflight' = inflight)))
           /\ (h'.chanGood = h.chanGood + 1 =>
               (/\ h'.createSubmitted =
                      h.createSubmitted + (IF creation_requested /\ ~created THEN 1 ELSE 0)
                /\ (~creation_requested =>
                      (inflight' = inflight /\ h'.activateSubmitted = h.activateSubmitted))))]_vars

\* a deferred create() whose CreateSession went out with the channel event
C11_Witness ==
    /\ h.createCalls = 1 /\ h.deferred = 1 /\ h.chanGood = 1
    /\ h.createSubmitted = 1 /\ InFlight("CreateSession") = 1

\* C12: once created, every channel event with a good status submits an
\* ActivateSession and no CreateSession, and the good response to it emits
\* status_changed(Good) again.
C12_ReconnectReactivates ==
    [][/\ ((h'.chanGood = h.chanGood + 1 /\ created) =>
              (/\ h'.activateSubmitted = h.activateSubmitted + 1
               /\ h'.createSubmitted = h.createSubmitted
               /\ InFlight("CreateSession")' = InFlight("CreateSession")))
       /\ (h'.activateGood = h.activateGood + 1 =>
              (h'.emitted["Good"] = h.emitted["Good"] + 1 /\ status_code' = "Good"))]_vars

\* Disconnected then Reconnected after activation: Good was emitted twice
C12_Witness ==
    /\ AllIdle /\ h.ops = 3 /\ h.createCalls = 1 /\ h.chanGood = 1
    /\ h.reactivations = 1 /\ h.createSubmitted = 1
    /\ h.activateGood = 2 /\ h.emitted["Good"] = 2 /\ status_code = "Good"

\* callback invocations of one kind, and of one kind with one code
CallbacksOf(kind) ==
    LET S == {e \in BagToSet(h.callbacks) : e[1] = kind}
    IN  BagCardinality([e \in S |-> h.callbacks[e]])

CallbacksWith(kind, code) ==
    LET S == {e \in BagToSet(h.callbacks) : e[1] = kind /\ e[2] = code}
    IN  BagCardinality([e \in S |-> h.callbacks[e]])

FinishedWith(kind, code) ==
    CopiesIn(<<kind, code, "refused">>, h.finished)
    + CopiesIn(<<kind, code, "response">>, h.finished)

\* C13: a Browse or Read that ends with a bad status (bad ServiceResult or a
\* refused submission) hands that code to the operation's callback and
\* leaves status, created, creation_requested, info, the subscription
\* registry, the ack ledgers and publishing as they were, emitting nothing.
C13_RequestErrorLeavesSession ==
    [][\A kind \in {"Browse", "Read"} : \A code \in BadCodes :
          FinishedWith(kind, code)' # FinishedWith(kind, code) =>
              (/\ CallbacksWith(kind, code)' = CallbacksWith(kind, code) + 1
               /\ sess' = sess /\ pub' = pub
               /\ h'.emitted = h.emitted /\ h'.faulted = h.faulted
               /\ h'.outcomes = h.outcomes)]_vars

\* an active session stayed Good through a failed Read and a refused Browse
C13_Witness ==
    /\ status_code = "Good" /\ created /\ ~h.faulted
    /\ CopiesIn(<<"Read", "BadTimeout", "response">>, h.finished) = 1
    /\ CopiesIn(<<"Browse", "BadTimeout", "refused">>, h.finished) = 1
    /\ CallbacksWith("Read", "BadTimeout") = 1
    /\ CallbacksWith("Browse", "BadTimeout") = 1

\* C14: every Browse or Read call invokes its callback exactly once: with
\* the response when the transport accepted the request, or synchronously
\* with the bad submission status and no results when it refused.
C14_CallbackExactlyOnce ==
    /\ \A kind \in {"Browse", "Read"} :
          /\ h.calls[kind] = InFlight(kind) + CallbacksOf(kind)
          /\ \A code \in Codes : CallbacksWith(kind, code) = FinishedWith(kind, code)
          /\ \A code \in Codes :
                CopiesIn(<<kind, code, 0>>, h.callbacks)
                    >= CopiesIn(<<kind, code, "refused">>, h.finished)

\* one Read refused and reported synchronously, one answered by its response
C14_Witness ==
    /\ h.calls["Read"] = 2 /\ InFlight("Read") = 0
    /\ CopiesIn(<<"Read", "BadTimeout", "refused">>, h.finished) = 1
    /\ CopiesIn(<<"Read", "BadTimeout", 0>>, h.callbacks) = 1
    /\ CopiesIn(<<"Read", "Good", "response">>, h.finished) = 1
    /\ CopiesIn(<<"Read", "Good", 1>>, h.callbacks) = 1

\* C15: after delete() no later operation and no late response, the
\* response of a Publish that was in flight when delete() ran included,
\* violates an assertion or crashes.
C15_NoAssertAfterDelete == h.deleted => ~aborted

\* C16: every read and every write of created, creation_requested, status,
\* info, the subscription registry, the two ack ledgers and publishing is
\* made while holding the session mutex, in every operation.
C16_MembersAccessedUnderMutex == h.unlocked = {}

InLoop == Cardinality({t \in Threads : th[t].pc \in {"Publish", "BeginPublish", "Handler"}})

\* C18: a Publish response with a bad service status or with a bad
\* per-acknowledgement result faults the session and does nothing else: no
\* handler is invoked, no pair is appended to the pending acknowledgements
\* and that response issues no further Publish.
C18_BadPublishResponseOnlyFaults ==
    [][\A c \in BadCodes :
          (h'.pubResp = h.pubResp + 1 /\ h'.outcomes[c] = h.outcomes[c] + 1) =>
              (/\ OwedErrors(c)' = OwedErrors(c) + 1
               /\ pub' = pub
               /\ h'.received = h.received /\ h'.dispatched = h.dispatched
               /\ h'.delivered = h.delivered
               /\ h'.pubIssued = h.pubIssued
               /\ InLoop' = InLoop)]_vars

\* the second Publish carried an acknowledgement the server rejected: the
\* session is faulted with that result and the loop went no further
C18_Witness ==
    /\ AllIdle /\ h.pubResp = 2 /\ h.pubIssued = 2
    /\ h.outcomes["BadSequenceNumberUnknown"] = 1
    /\ h.emitted["BadSequenceNumberUnknown"] = 1
    /\ status_code = "BadSequenceNumberUnknown"
    /\ Cardinality(h.received) = 1 /\ acknowledgements = <<>>
    /\ InFlight("Publish") = 0

\* C19: after stop_publishing has removed the last subscription, the
\* publish() call made on the response of the Publish in flight is a no-op:
\* a response handler passes the gate of Publish() only while a subscription
\* is registered.
C19_NoPublishAfterLastStop ==
    [][(/\ ~publishing /\ publishing' /\ ~h.deleted
        /\ \A t \in Threads : th[t].pc = "Publish" => th[t].op = "OnPublishResponse")
          => DOMAIN subscriptions # {}]_vars

\* calls that still owe the SetStatus of a bad code
OwedFaults == Cardinality({t \in Threads : th[t].pc = "OnError"})

\* a CreateSession submission was refused, or a CreateSession response came
\* back with a bad service result
CreateSessionFailed ==
    \/ /\ h'.createSubmitted = h.createSubmitted + 1
       /\ InFlight("CreateSession")' = InFlight("CreateSession")
    \/ /\ InFlight("CreateSession")' = InFlight("CreateSession") - 1
       /\ h'.createGood = h.createGood

C21_DeleteFrame ==
    [][h'.deleteCalls = h.deleteCalls + 1 =>
          (/\ DOMAIN subscriptions' = {}
           /\ acknowledgements' = <<>> /\ sent_acknowledgements' = <<>>
           /\ ~publishing'
           /\ sess' = sess /\ chanStatus' = chanStatus
           /\ inflight' = inflight /\ th' = th /\ aborted' = aborted
           /\ h'.emitted = h.emitted /\ h'.outcomes = h.outcomes
           /\ h'.createSubmitted = h.createSubmitted
           /\ h'.activateSubmitted = h.activateSubmitted
           /\ h'.pubIssued = h.pubIssued /\ h'.calls = h.calls)]_vars

\* delete() ran on an active, publishing session: the registry and the gate
\* are reset while the session stays created and Good and the Publish it
\* had submitted is still with the transport
C21_Witness ==
    /\ h.deleteCalls = 1 /\ AllIdle
    /\ DOMAIN subscriptions = {} /\ ~publishing
    /\ acknowledgements = <<>> /\ sent_acknowledgements = <<>>
    /\ created /\ creation_requested /\ status_code = "Good"
    /\ h.emitted["Good"] = 1 /\ InFlight("Publish") = 1

\* C22: at most one session-establishment request (CreateSession or
\* ActivateSession) is in flight at any time, also when a channel Good event
\* arrives while one is outstanding; stated for a single create() call.
C22_OneEstablishmentInFlight ==
    h.createCalls <= 1 =>
        InFlight("CreateSession") + InFlight("ActivateSession") <= 1

\* pairs of good data-bearing responses whose sub was not registered when
\* the response was processed
Unregistered == h.received \ h.dispatched

\* no handler was invoked for pair p and none is about to be
NoHandlerFor(p) ==
    /\ \A e \in BagToSet(h.delivered) : <<e[2], e[3]>> # p
    /\ \A t \in Threads :
          (th[t].op = "OnPublishResponse" /\ th[t].sub = p[1] /\ th[t].seq = p[2])
              => th[t].handler = NoHandler

\* C23 as stated: a good data-bearing Publish response whose sub_id is not
\* registered invokes no handler, yet its (sub_id, sequence number) is
\* appended to the pending acknowledgements and goes out in the next
\* outbound Publish.
C23_UnregisteredStillAcked ==
    ~aborted => \A p \in Unregistered : NoHandlerFor(p) /\ AckCopies(p) = 1

\* C23 amended: the same, unless delete() runs: the pair is pending, or
\* taken by the Publish() being submitted, or carried by one outbound
\* Publish request, and a Publish() that passed the gate left none pending.
C23_UnregisteredStillAckedUnlessDeleted ==
    /\ \A p \in Unregistered : NoHandlerFor(p)
    /\ ~h.deleted =>
          /\ \A p \in Unregistered : AckCopies(p) = 1
          /\ ((\E t \in Threads : th[t].pc \in {"BeginPublish"}) => Len(acknowledgements) = 0)

\* subscription 1 was stopped while its Publish was in flight; the response
\* reached no handler and its pair went out with the next Publish request
C23_Witness ==
    /\ AllIdle /\ ~h.deleted /\ h.startCalls = 1
    /\ Unregistered = {<<1, 1>>}
    /\ h.delivered = EmptyBag
    /\ CopiesIn(<<1, 1>>, h.ackSent) = 1
    /\ InFlight("Publish") = 1 /\ h.pubIssued = 2

====
